---------------------------- MODULE Spec2Model ----------------------------
(***************************************************************************)
(* Model of the xenakis-sieve crate: the residual class algebra            *)
(* (src/src/lib.rs, Residual), the congruence merge in src/src/util.rs     *)
(* (gcd, meziriac, intersection), the expression tree (SieveNode) and its  *)
(* Display, the Sieve handle with its & combinator over shared             *)
(* Rc<SieveNode> allocations, and the interval iterator drafted in lib.rs. *)
(*                                                                         *)
(* The code is generic over T: NumericElement.  The model instantiates T   *)
(* with the narrowest signed and unsigned types util.rs implements AbsMax  *)
(* for (i8 and u8); arithmetic keeps that width.  An overflowing +, - or * *)
(* panics when the build has overflow checks (debug) and wraps otherwise   *)
(* (release); both builds are modelled.                                    *)
(***************************************************************************)
EXTENDS Integers, Sequences, FiniteSets, TLC

VARIABLES
    T,                \* the element type the generics are instantiated with
                      \* ("i8" or "u8"; for u8 the literals T::from(0) and
                      \* T::from(1) are taken to be 0 and 1)
    overflow_checks,  \* TRUE: overflow panics (debug); FALSE: it wraps
    r1, r2,           \* two Residual values built by Residual::new
    res,              \* outcome of the last `r1 & r2`, or NoResult
    rev,              \* outcome of the last `r2 & r1`, or NoResult
    call,             \* the last call made and its arguments
    hit,              \* outcomes of the last contains(value) calls
    ord,              \* outcomes of the last comparisons (cmp, ==)
    stack,            \* the stack of SieveNode trees under construction
    probe,            \* outcome of the last SieveNode::contains call
    rendered,         \* outcome of the last SieveNode to_string() call
    sieve_node,       \* IterInterval.sieve_node
    source,           \* the whole input sequence handed to iter_interval
    iterator,         \* IterInterval.iterator: the input not yet consumed
    last,             \* IterInterval.last
    emitted,          \* the values next() has returned so far
    returned,         \* what the last call of next() returned
    args,             \* arguments a function of util.rs is called with
    ran,              \* the last call into util.rs and what came of it
    heap,             \* the Rc<SieveNode> allocations; an Rc is an index
    strong,           \* the strong count of each allocation
    sieves,           \* for each allocation, the Sieve handles alive
                      \* that have it as their root
    combined,         \* the last `s1 & s2` on Sieve handles
    shown,            \* outcome of the last to_string() on a Sieve
    sprobe,           \* outcome of the last root.contains on a Sieve
    evals             \* number of evaluations (contains) of Sieve roots

vars == <<T, overflow_checks, r1, r2, res, rev, call, hit, ord, stack,
          probe, rendered, sieve_node, source, iterator, last, emitted, returned,
          args, ran, heap, strong, sieves, combined, shown, sprobe, evals>>

residual_vars == <<r1, r2, res, rev, call, hit, ord>>
node_vars == <<stack, probe, rendered>>
iter_vars == <<sieve_node, source, iterator, last, emitted, returned>>
util_vars == <<args, ran>>
sieve_vars == <<heap, strong, sieves, combined, shown, sprobe, evals>>

---------------------------------------------------------------------------
(* Bounds of the model. *)

MaxMod == 7        \* moduli passed to Residual::new: 0..MaxMod
MaxShift == 9      \* shifts passed to Residual::new: up to MaxShift
MaxNegShift == 2   \* ... and down to -MaxNegShift (signed types only)
MaxVal == 8        \* values probed with contains: -MaxVal..MaxVal
MaxOps == 2        \* operators in the trees at hand
MaxIn == 3         \* values of the iterator's input: -MaxIn..MaxIn
MaxLen == 3        \* length of the iterator's input
MaxArg == 16       \* arguments of gcd and intersection: up to MaxArg
MaxNegArg == 1     \* ... and down to -MaxNegArg
MaxArgShift == 2   \* shifts passed to intersection: 0..MaxArgShift
MaxNodes == 3      \* Rc<SieveNode> allocations
MaxSieves == 3     \* Sieve handles alive at a time
MaxEvals == 1      \* evaluations of Sieve roots

---------------------------------------------------------------------------
(* The element type: util.rs, AbsMax::MAX and the primitive's range. *)

I8_MAX == 127
U8_MAX == 255

Signed == T = "i8"
T_MAX == IF Signed THEN I8_MAX ELSE U8_MAX
T_MIN == IF Signed THEN -I8_MAX - 1 ELSE 0

InT(x) == T_MIN <= x /\ x <= T_MAX
Wrap(x) == ((x - T_MIN) % (T_MAX - T_MIN + 1)) + T_MIN
AbsInt(x) == IF x < 0 THEN -x ELSE x

(* The outcome of an arithmetic step: st is "ok", "panic" (the thread      *)
(* panics), "err" (a Result::Err) or "diverge" (the call never returns).   *)
Val(x) == [st |-> "ok", v |-> x]
Fail(why) == [st |-> why, v |-> 0]

Checked(x) ==
    IF InT(x) THEN Val(x)
    ELSE IF overflow_checks THEN Fail("panic")
    ELSE Val(Wrap(x))

Add(a, b) == Checked(a + b)
Sub(a, b) == Checked(a - b)
Mul(a, b) == Checked(a * b)

(* Rust's % and / truncate toward zero; a zero divisor and MIN by -1 panic *)
(* in every build.                                                         *)
Rem(a, b) ==
    IF b = 0 THEN Fail("panic")
    ELSE IF Signed /\ a = T_MIN /\ b = -1 THEN Fail("panic")
    ELSE IF a >= 0 THEN Val(a % AbsInt(b))
    ELSE Val(-((-a) % AbsInt(b)))

Div(a, b) ==
    IF b = 0 THEN Fail("panic")
    ELSE IF Signed /\ a = T_MIN /\ b = -1 THEN Fail("panic")
    ELSE IF (a >= 0) = (b >= 0) THEN Val(AbsInt(a) \div AbsInt(b))
    ELSE Val(-(AbsInt(a) \div AbsInt(b)))

(* AbsMax::abs.  For the signed types it is the primitive's abs, which     *)
(* overflows on MIN.  For the unsigned types `u8::abs(self)` names no      *)
(* inherent method, so it resolves to AbsMax::abs itself: the call         *)
(* recurses without end and never returns a value.                         *)
abs(x) ==
    IF Signed THEN Checked(AbsInt(x))
    ELSE Fail("diverge")

(* The first failure among the steps, in evaluation order. *)
RECURSIVE FirstFail(_)
FirstFail(steps) ==
    IF steps = <<>> THEN "ok"
    ELSE IF Head(steps).st # "ok" THEN Head(steps).st
    ELSE FirstFail(Tail(steps))

---------------------------------------------------------------------------
(* util.rs: gcd, meziriac, intersection. *)

RECURSIVE gcd_loop(_, _)
gcd_loop(n, m) ==
    IF m = 0 THEN n
    ELSE LET n1 == IF m < n THEN m ELSE n
             m1 == IF m < n THEN n ELSE m
         IN  gcd_loop(n1, m1 % n1)

(* Mutant of gcd: the guard written with < for <=, so that zero passes it  *)
(* and meets the loop (`m % n` panics for n = 0).                          *)
gcd_zero_accepted(n, m) ==
    IF n < 0 \/ m < 0 THEN Fail("err")
    ELSE IF m = 0 THEN Val(n)
    ELSE IF n = 0 THEN Fail("panic")
    ELSE Val(gcd_loop(n, m))

gcd(n, m) ==
    IF n <= 0 \/ m <= 0 THEN Fail("err")
    ELSE Val(gcd_loop(n, m))

(* The number of times the body of gcd's while loop runs. *)
RECURSIVE gcd_iterations(_, _)
gcd_iterations(n, m) ==
    IF m = 0 THEN 0
    ELSE LET n1 == IF m < n THEN m ELSE n
             m1 == IF m < n THEN n ELSE m
         IN  1 + gcd_iterations(n1, m1 % n1)

RECURSIVE meziriac_loop(_, _, _)
meziriac_loop(g, a, b) ==
    IF g < T_MAX
    THEN LET p == Mul(g, a)
             r == Rem(p.v, b)
         IN  IF p.st # "ok" THEN p
             ELSE IF r.st # "ok" THEN r
             ELSE IF r.v = 1 THEN Val(g)
             ELSE meziriac_loop(g + 1, a, b)
    ELSE Val(g)

meziriac(a, b) ==
    IF b = 1 THEN Val(1)
    ELSE IF a = b THEN Val(0)
    ELSE meziriac_loop(1, a, b)

(* The outcome of a call returning a (modulus, shift) pair. *)
Pair(m, s) == [st |-> "ok", modulus |-> m, shift |-> s]
NoPair(why) == [st |-> why, modulus |-> 0, shift |-> 0]

(* Mutant of no_intersection_test: || written for &&. *)
no_intersection_test_or(d, rd) == d # 1 \/ rd # 0

no_intersection_test(d, rd) == d # 1 /\ rd # 0

(* A call made from inside intersection: whether control reached it, its   *)
(* two arguments and its outcome.                                          *)
Called(x, y, outcome) == [made |-> TRUE, x |-> x, y |-> y, out |-> outcome]
NotCalled == [made |-> FALSE, x |-> 0, y |-> 0, out |-> Fail("none")]

(* One run of intersection: its outcome (out) and the calls it made to gcd *)
(* and to meziriac.  `m` is computed before meziriac is called, so an      *)
(* overflow panic in md1 * md2 * d leaves meziriac uncalled.               *)
intersection_run(m1, m2, s1, s2) ==
    IF m1 = 0 \/ m2 = 0
    THEN [out |-> Pair(0, 0), gcd |-> NotCalled, meziriac |-> NotCalled]
    ELSE
      LET s1n  == Rem(s1, m1)
          s2n  == Rem(s2, m2)
          norm == FirstFail(<<s1n, s2n>>)
          d    == gcd(m1, m2)
          md1  == Div(m1, d.v)
          md2  == Div(m2, d.v)
          diff == Sub(s2n.v, s1n.v)
          span == abs(diff.v)
          rd   == Rem(span.v, d.v)
          head == FirstFail(<<s1n, s2n, d, md1, md2, diff, span, rd>>)
          mm   == Mul(md1.v, md2.v)
          m    == Mul(mm.v, d.v)
          g    == meziriac(md1.v, md2.v)
          gs   == Mul(g.v, span.v)
          gsm  == Mul(gs.v, md1.v)
          sum  == Add(s1n.v, gsm.v)
          sh   == Rem(sum.v, m.v)
          tail == FirstFail(<<mm, m, g, gs, gsm, sum, sh>>)
          gcd_call == IF norm = "ok" THEN Called(m1, m2, d) ELSE NotCalled
      IN  IF head # "ok"
          THEN [out |-> NoPair(head), gcd |-> gcd_call, meziriac |-> NotCalled]
          ELSE IF no_intersection_test(d.v, rd.v)
          THEN [out |-> Pair(0, 0), gcd |-> gcd_call, meziriac |-> NotCalled]
          ELSE IF FirstFail(<<mm, m>>) # "ok"
          THEN [out |-> NoPair(tail), gcd |-> gcd_call, meziriac |-> NotCalled]
          ELSE [out |-> IF tail # "ok" THEN NoPair(tail) ELSE Pair(m.v, sh.v),
                gcd |-> gcd_call,
                meziriac |-> Called(md1.v, md2.v, g)]

intersection(m1, m2, s1, s2) == intersection_run(m1, m2, s1, s2).out

---------------------------------------------------------------------------
(* lib.rs: Residual. *)

Residual(m, s) == [modulus |-> m, shift |-> s]

(* Mutant of normalize_shift: one subtraction instead of the remainder. *)
normalize_shift_once(modulus, shift) ==
    IF shift >= modulus THEN Val(shift - modulus) ELSE Val(shift)

normalize_shift(modulus, shift) == Rem(shift, modulus)

Residual_new(modulus, shift) ==
    IF modulus = 0 THEN Pair(0, 0)
    ELSE LET s == normalize_shift(modulus, shift)
         IN  IF s.st # "ok" THEN NoPair(s.st) ELSE Pair(modulus, s.v)

(* Mutant of Residual_contains: the value's remainder compared with the    *)
(* shift, which a negative value's negative remainder never equals.        *)
Residual_contains_rem(self, value) ==
    IF self.modulus = 0 THEN "false"
    ELSE LET r == Rem(value, self.modulus)
         IN  IF r.st # "ok" THEN r.st
             ELSE IF r.v = self.shift THEN "true" ELSE "false"

(* contains: "true", "false", or "panic". *)
Residual_contains(self, value) ==
    IF self.modulus = 0 THEN "false"
    ELSE LET pos == Sub(value, self.shift)
             r   == Rem(pos.v, self.modulus)
         IN  IF pos.st # "ok" THEN pos.st
             ELSE IF r.st # "ok" THEN r.st
             ELSE IF r.v = 0 THEN "true" ELSE "false"

(* `self & rhs`: intersection(...).unwrap(), then Residual::new. *)
Residual_bitand(self, rhs) ==
    LET i == intersection(self.modulus, rhs.modulus, self.shift, rhs.shift)
    IN  IF i.st = "err" THEN NoPair("panic")
        ELSE IF i.st # "ok" THEN NoPair(i.st)
        ELSE Residual_new(i.modulus, i.shift)

Residual_eq(self, other) ==
    self.modulus = other.modulus /\ self.shift = other.shift

T_cmp(x, y) == IF x < y THEN "Less" ELSE IF x = y THEN "Equal" ELSE "Greater"

(* Mutant of Residual_cmp: the shift compared first. *)
Residual_cmp_shift_first(self, other) ==
    LET c == T_cmp(self.shift, other.shift)
    IN  IF c # "Equal" THEN c ELSE T_cmp(self.modulus, other.modulus)

Residual_cmp(self, other) ==
    LET c == T_cmp(self.modulus, other.modulus)
    IN  IF c # "Equal" THEN c ELSE T_cmp(self.shift, other.shift)

Residual_lt(self, other) == Residual_cmp(self, other) = "Less"

---------------------------------------------------------------------------
(* lib.rs: SieveNode. *)

Unit(residual) == [kind |-> "Unit", residual |-> residual]
Intersection(lhs, rhs) == [kind |-> "Intersection", lhs |-> lhs, rhs |-> rhs]
Union(lhs, rhs) == [kind |-> "Union", lhs |-> lhs, rhs |-> rhs]
SymmetricDifference(lhs, rhs) ==
    [kind |-> "SymmetricDifference", lhs |-> lhs, rhs |-> rhs]
Inversion(part) == [kind |-> "Inversion", part |-> part]

(* Rust's &&, ||, ^ and ! over the outcomes of contains: && and || do not  *)
(* evaluate their right operand when the left one decides.                 *)
bool_and(l, r) == IF l = "true" THEN r ELSE l
bool_or(l, r) == IF l = "false" THEN r ELSE l
(* Mutant of bool_xor: | written for ^. *)
bool_xor_as_or(l, r) ==
    IF l \notin {"true", "false"} THEN l
    ELSE IF r \notin {"true", "false"} THEN r
    ELSE IF l = "true" \/ r = "true" THEN "true" ELSE "false"

bool_xor(l, r) ==
    IF l \notin {"true", "false"} THEN l
    ELSE IF r \notin {"true", "false"} THEN r
    ELSE IF l # r THEN "true" ELSE "false"
bool_not(p) ==
    IF p = "true" THEN "false" ELSE IF p = "false" THEN "true" ELSE p

RECURSIVE SieveNode_contains(_, _)
SieveNode_contains(self, value) ==
    CASE self.kind = "Unit" ->
           Residual_contains(self.residual, value)
      [] self.kind = "Intersection" ->
           bool_and(SieveNode_contains(self.lhs, value),
                    SieveNode_contains(self.rhs, value))
      [] self.kind = "Union" ->
           bool_or(SieveNode_contains(self.lhs, value),
                   SieveNode_contains(self.rhs, value))
      [] self.kind = "SymmetricDifference" ->
           bool_xor(SieveNode_contains(self.lhs, value),
                    SieveNode_contains(self.rhs, value))
      [] self.kind = "Inversion" ->
           bool_not(SieveNode_contains(self.part, value))

---------------------------------------------------------------------------
(* lib.rs: Display for Residual, SieveNode and Sieve. *)

Residual_to_string(self) ==
    ToString(self.modulus) \o "@" \o ToString(self.shift)

RECURSIVE SieveNode_to_string(_)
SieveNode_to_string(self) ==
    CASE self.kind = "Unit" -> Residual_to_string(self.residual)
      [] self.kind = "Intersection" ->
           SieveNode_to_string(self.lhs) \o "&" \o SieveNode_to_string(self.rhs)
      [] self.kind = "Union" ->
           SieveNode_to_string(self.lhs) \o "|" \o SieveNode_to_string(self.rhs)
      [] self.kind = "SymmetricDifference" ->
           SieveNode_to_string(self.lhs) \o "^" \o SieveNode_to_string(self.rhs)
      [] self.kind = "Inversion" ->
           "!(" \o SieveNode_to_string(self.part) \o ")"

---------------------------------------------------------------------------
(* lib.rs: Sieve.  An Rc<SieveNode> is an index into `heap`; the children  *)
(* of a node kept in the heap are such indices.                            *)

Sieve(root) == [root |-> root]

(* The tree an Rc<SieveNode> points to. *)
RECURSIVE Deref(_, _)
Deref(h, a) ==
    CASE h[a].kind = "Unit" -> h[a]
      [] h[a].kind = "Inversion" -> Inversion(Deref(h, h[a].part))
      [] h[a].kind = "Intersection" ->
           Intersection(Deref(h, h[a].lhs), Deref(h, h[a].rhs))
      [] h[a].kind = "Union" ->
           Union(Deref(h, h[a].lhs), Deref(h, h[a].rhs))
      [] h[a].kind = "SymmetricDifference" ->
           SymmetricDifference(Deref(h, h[a].lhs), Deref(h, h[a].rhs))

(* Mutant of Sieve_bitand: the node of BitOr built for `&`. *)
Sieve_bitand_as_union(self, rhs) == Union(self.root, rhs.root)

(* The node `self & rhs` allocates: its children are the operands' roots   *)
(* (Rc::clone), not copies of them.                                        *)
Sieve_bitand(self, rhs) == Intersection(self.root, rhs.root)

Sieve_to_string(h, self) ==
    "Sieve{" \o SieveNode_to_string(Deref(h, self.root)) \o "}"

---------------------------------------------------------------------------
(* lib.rs: the interval iterator (the draft kept in comments). *)

PositionLast_Init == [tag |-> "Init", v |-> 0]
PositionLast_Value(p) == [tag |-> "Value", v |-> p]

Some(x) == [tag |-> "Some", v |-> x]
None == [tag |-> "None", v |-> 0]
Panicked == [tag |-> "panic", v |-> 0]

(* Mutant of interval: the operands swapped. *)
interval_swapped(p, prev) == Sub(prev, p)

(* The interval the Value branch returns: p - last. *)
interval(p, prev) == Sub(p, prev)

(* One call of IterInterval::next: the loop over the remaining input. *)
RECURSIVE IterInterval_next(_, _, _)
IterInterval_next(node, it, lst) ==
    IF it = <<>> THEN [ret |-> None, iterator |-> it, last |-> lst]
    ELSE
      LET p == Head(it)
          c == SieveNode_contains(node, p)
          post == interval(p, lst.v)
      IN  IF c = "true"
          THEN IF lst.tag = "Init"
               THEN IterInterval_next(node, Tail(it), PositionLast_Value(p))
               ELSE IF post.st # "ok"
               THEN [ret |-> Panicked, iterator |-> Tail(it), last |-> lst]
               ELSE [ret |-> Some(post.v), iterator |-> Tail(it),
                     last |-> PositionLast_Value(p)]
          ELSE IF c = "false"
          THEN IterInterval_next(node, Tail(it), lst)
          ELSE [ret |-> Panicked, iterator |-> Tail(it), last |-> lst]

---------------------------------------------------------------------------
(* The values the calls are made with. *)

Moduli == 0..MaxMod
Shifts == {s \in (-MaxNegShift)..MaxShift : InT(s)}
Values == {v \in (-MaxVal)..MaxVal : InT(v)}

NoResult == NoPair("none")
NoHit == [r1 |-> <<>>, r2 |-> <<>>, res |-> <<>>]
NoOrd == [cmp |-> <<>>, eq |-> <<>>]
Start == [op |-> "start", modulus |-> 0, shift |-> 0]

AsResidual(p) == Residual(p.modulus, p.shift)

(* let r1 = Residual::new(m, s); *)
New1(m, s) ==
    /\ call.op = "start"
    /\ Residual_new(m, s).st = "ok"
    /\ r1' = AsResidual(Residual_new(m, s))
    /\ call' = [op |-> "new1", modulus |-> m, shift |-> s]
    /\ UNCHANGED <<T, overflow_checks, rev, r2, res, hit, ord,
                   node_vars, iter_vars, util_vars, sieve_vars>>

(* let r2 = Residual::new(m, s); *)
New2(m, s) ==
    /\ call.op = "new1"
    /\ Residual_new(m, s).st = "ok"
    /\ r2' = AsResidual(Residual_new(m, s))
    /\ call' = [op |-> "new2", modulus |-> m, shift |-> s]
    /\ UNCHANGED <<T, overflow_checks, rev, r1, res, hit, ord,
                   node_vars, iter_vars, util_vars, sieve_vars>>

(* r1 & r2 *)
BitAnd ==
    /\ call.op = "new2"
    /\ res' = Residual_bitand(r1, r2)
    /\ call' = [op |-> "bitand", modulus |-> 0, shift |-> 0]
    /\ UNCHANGED <<T, overflow_checks, rev, r1, r2, hit, ord,
                   node_vars, iter_vars, util_vars, sieve_vars>>

(* r2 & r1: the merge with the operands exchanged *)
BitAndSwapped ==
    /\ call.op = "bitand"
    /\ rev' = Residual_bitand(r2, r1)
    /\ call' = [op |-> "swapped", modulus |-> 0, shift |-> 0]
    /\ UNCHANGED <<T, overflow_checks, r1, r2, res, hit, ord, node_vars,
                   iter_vars, util_vars, sieve_vars>>

(* For every value v of the window: r1.contains(v), r2.contains(v) and,    *)
(* when the merge returned, (r1 & r2).contains(v).                         *)
Contains ==
    /\ call.op = "bitand"
    /\ hit' = [r1 |-> [v \in Values |-> Residual_contains(r1, v)],
               r2 |-> [v \in Values |-> Residual_contains(r2, v)],
               res |-> [v \in Values |->
                          IF res.st = "ok"
                          THEN Residual_contains(AsResidual(res), v)
                          ELSE "none"]]
    /\ call' = [op |-> "contains", modulus |-> 0, shift |-> 0]
    /\ UNCHANGED <<T, overflow_checks, rev, r1, r2, res, ord,
                   node_vars, iter_vars, util_vars, sieve_vars>>

(* The residuals at hand: r1, r2 and, when the merge returned, r1 & r2. *)
Operands ==
    IF res.st = "ok" THEN <<r1, r2, AsResidual(res)>> ELSE <<r1, r2>>

(* a.cmp(&b) and a == b for every pair of the residuals at hand *)
Compare ==
    /\ call.op = "bitand"
    /\ ord' = [cmp |-> [i \in DOMAIN Operands |-> [j \in DOMAIN Operands |->
                          Residual_cmp(Operands[i], Operands[j])]],
               eq  |-> [i \in DOMAIN Operands |-> [j \in DOMAIN Operands |->
                          Residual_eq(Operands[i], Operands[j])]]]
    /\ call' = [op |-> "compare", modulus |-> 0, shift |-> 0]
    /\ UNCHANGED <<T, overflow_checks, rev, r1, r2, res, hit,
                   node_vars, iter_vars, util_vars, sieve_vars>>

InitResidual ==
    /\ r1 = Residual(0, 0)
    /\ r2 = Residual(0, 0)
    /\ res = NoResult
    /\ rev = NoResult
    /\ call = Start
    /\ hit = NoHit
    /\ ord = NoOrd

(* The leaves the trees are built from: the residuals of the tests of      *)
(* lib.rs, the empty one included.                                         *)
Leaves == {Residual(0, 0), Residual(2, 0), Residual(3, 1)}
EmptyNode == Unit(Residual(0, 0))
NoProbe == <<>>
NoText == [made |-> FALSE, text |-> ""]

RECURSIVE Ops(_)
Ops(n) ==
    CASE n.kind = "Unit" -> 0
      [] n.kind = "Inversion" -> 1 + Ops(n.part)
      [] OTHER -> 1 + Ops(n.lhs) + Ops(n.rhs)

InitNode ==
    /\ stack = <<>>
    /\ probe = NoProbe
    /\ rendered = NoText

InitIter ==
    /\ sieve_node = EmptyNode
    /\ source = <<>>
    /\ iterator = <<>>
    /\ last = PositionLast_Init
    /\ emitted = <<>>
    /\ returned = [tag |-> "start", v |-> 0]

(* Trees are built the way Sieve::new builds them from a postfix token     *)
(* list: an operand pushes a Unit, an operator pops its operands and       *)
(* pushes the node over them.  Cost counts the operators of the stack's    *)
(* trees and those still needed to join them into one tree.                *)
RECURSIVE StackOps(_)
StackOps(st) == IF st = <<>> THEN 0 ELSE Ops(Head(st)) + StackOps(Tail(st))
Cost(st) == StackOps(st) + (IF st = <<>> THEN 0 ELSE Len(st) - 1)

Pop2(st) == SubSeq(st, 1, Len(st) - 2)
Left(st) == st[Len(st) - 1]
Right(st) == st[Len(st)]

(* operand => stack.push(Unit(r)) *)
PushUnit(r) ==
    /\ Cost(Append(stack, Unit(r))) <= MaxOps
    /\ stack' = Append(stack, Unit(r))
    /\ probe' = NoProbe /\ rendered' = NoText
    /\ UNCHANGED <<T, overflow_checks, residual_vars, iter_vars,
                 util_vars, sieve_vars>>

(* "&" => right = pop, left = pop, push(left & right) *)
PushIntersection ==
    /\ Len(stack) >= 2
    /\ stack' = Append(Pop2(stack), Intersection(Left(stack), Right(stack)))
    /\ probe' = NoProbe /\ rendered' = NoText
    /\ UNCHANGED <<T, overflow_checks, residual_vars, iter_vars,
                 util_vars, sieve_vars>>

(* "|" => right = pop, left = pop, push(left | right) *)
PushUnion ==
    /\ Len(stack) >= 2
    /\ stack' = Append(Pop2(stack), Union(Left(stack), Right(stack)))
    /\ probe' = NoProbe /\ rendered' = NoText
    /\ UNCHANGED <<T, overflow_checks, residual_vars, iter_vars,
                 util_vars, sieve_vars>>

(* "^" => right = pop, left = pop, push(left ^ right) *)
PushSymmetricDifference ==
    /\ Len(stack) >= 2
    /\ stack' = Append(Pop2(stack),
                       SymmetricDifference(Left(stack), Right(stack)))
    /\ probe' = NoProbe /\ rendered' = NoText
    /\ UNCHANGED <<T, overflow_checks, residual_vars, iter_vars,
                 util_vars, sieve_vars>>

(* "!" => s = pop, push(!s) *)
PushInversion ==
    /\ Len(stack) >= 1
    /\ Cost(stack) < MaxOps
    /\ stack' = Append(SubSeq(stack, 1, Len(stack) - 1), Inversion(Right(stack)))
    /\ probe' = NoProbe /\ rendered' = NoText
    /\ UNCHANGED <<T, overflow_checks, residual_vars, iter_vars,
                 util_vars, sieve_vars>>

(* node.contains(v), for the tree on top of the stack and every value v of *)
(* the window                                                              *)
NodeContains ==
    /\ Len(stack) >= 1
    /\ probe = NoProbe
    /\ probe' = [v \in Values |-> SieveNode_contains(Right(stack), v)]
    /\ UNCHANGED <<T, overflow_checks, stack, rendered, residual_vars,
                   iter_vars, util_vars, sieve_vars>>

(* node.to_string(), for the tree on top of the stack *)
NodeToString ==
    /\ Len(stack) >= 1
    /\ rendered = NoText
    /\ rendered' = [made |-> TRUE, text |-> SieveNode_to_string(Right(stack))]
    /\ UNCHANGED <<T, overflow_checks, stack, probe, residual_vars,
                   iter_vars, util_vars, sieve_vars>>

(* The sieves the iterator is run on, and its inputs. *)
Sieves ==
    {Unit(Residual(0, 0)), Unit(Residual(2, 0)), Unit(Residual(3, 1)),
     Union(Unit(Residual(2, 0)), Unit(Residual(3, 1))),
     Inversion(Unit(Residual(2, 0)))}
Inputs == (-MaxIn)..MaxIn
RECURSIVE SeqsUpTo(_)
SeqsUpTo(n) ==
    IF n = 0 THEN {<<>>}
    ELSE LET shorter == SeqsUpTo(n - 1)
         IN  shorter \cup {Append(q, x) : q \in {s \in shorter : Len(s) = n - 1},
                                          x \in Inputs}

InputSeqs == SeqsUpTo(MaxLen)

(* sieve.iter_interval(input) *)
iter_interval(node, input) ==
    /\ returned.tag = "start"
    /\ sieve_node' = node
    /\ source' = input
    /\ iterator' = input
    /\ last' = PositionLast_Init
    /\ emitted' = <<>>
    /\ returned' = [tag |-> "created", v |-> 0]
    /\ UNCHANGED <<T, overflow_checks, residual_vars, node_vars,
                 util_vars, sieve_vars>>

(* One call of next() on the iterator. *)
IterNext ==
    /\ returned.tag \in {"created", "Some"}
    /\ LET n == IterInterval_next(sieve_node, iterator, last)
       IN  /\ iterator' = n.iterator
           /\ last' = n.last
           /\ returned' = n.ret
           /\ emitted' = IF n.ret.tag = "Some"
                         THEN Append(emitted, n.ret.v) ELSE emitted
    /\ UNCHANGED <<T, overflow_checks, sieve_node, source, residual_vars,
                   node_vars, util_vars, sieve_vars>>

(* Sieve handles: built around a Unit as the tests build them, cloned,     *)
(* combined with &, displayed and evaluated.                               *)
SieveLeaves == {Residual(2, 0), Residual(3, 1)}
NoCombined == [made |-> FALSE, lhs |-> 0, rhs |-> 0, result |-> 0,
               heap |-> <<>>, evals_before |-> 0, evals_after |-> 0]
NoShown == [made |-> FALSE, root |-> 0, text |-> ""]
NoSieveProbe == [made |-> FALSE, root |-> 0, vals |-> <<>>]

InitSieve ==
    /\ heap = <<>>
    /\ strong = <<>>
    /\ sieves = <<>>
    /\ combined = NoCombined
    /\ shown = NoShown
    /\ sprobe = NoSieveProbe
    /\ evals = 0

(* The number of Sieve handles alive. *)
RECURSIVE Sum(_)
Sum(q) == IF q = <<>> THEN 0 ELSE Head(q) + Sum(Tail(q))

(* The handles once one handle of root a has been moved away. *)
Moved(hs, a) == [hs EXCEPT ![a] = @ - 1]

(* let s = Sieve { root: Rc::new(SieveNode::Unit(r)) }; *)
SieveNew(r) ==
    /\ Len(heap) < MaxNodes /\ Sum(sieves) < MaxSieves
    /\ heap' = Append(heap, Unit(r))
    /\ strong' = Append(strong, 1)
    /\ sieves' = Append(sieves, 1)
    /\ combined' = NoCombined /\ shown' = NoShown /\ sprobe' = NoSieveProbe
    /\ UNCHANGED <<T, overflow_checks, evals, residual_vars, node_vars,
                   iter_vars, util_vars>>

(* let c = s.clone(); for a handle s of root a (derived Clone: Rc::clone   *)
(* of the root)                                                            *)
SieveClone(a) ==
    /\ sieves[a] > 0
    /\ Sum(sieves) < MaxSieves
    /\ sieves' = [sieves EXCEPT ![a] = @ + 1]
    /\ strong' = [strong EXCEPT ![a] = @ + 1]
    /\ combined' = NoCombined /\ shown' = NoShown /\ sprobe' = NoSieveProbe
    /\ UNCHANGED <<T, overflow_checks, heap, evals, residual_vars, node_vars,
                   iter_vars, util_vars>>

(* let s3 = s1 & s2; for two handles of roots a and b.  Both handles are   *)
(* moved into bitand: each root is Rc::clone'd into the new node and the   *)
(* moved handle is dropped on return, which leaves the strong count of its *)
(* root as it was.                                                         *)
SieveBitAnd(a, b) ==
    /\ sieves[a] > 0 /\ sieves[b] > 0
    /\ a = b => sieves[a] > 1
    /\ Len(heap) < MaxNodes
    /\ heap' = Append(heap, Sieve_bitand(Sieve(a), Sieve(b)))
    /\ strong' = Append(strong, 1)
    /\ sieves' = Append(Moved(Moved(sieves, a), b), 1)
    /\ combined' = [made |-> TRUE, lhs |-> a, rhs |-> b,
                    result |-> Len(heap) + 1,
                    heap |-> heap, evals_before |-> evals,
                    evals_after |-> evals]
    /\ shown' = NoShown /\ sprobe' = NoSieveProbe
    /\ UNCHANGED <<T, overflow_checks, evals, residual_vars, node_vars,
                   iter_vars, util_vars>>

(* s3.to_string(), for the handle s3 the last `s1 & s2` returned *)
SieveToString ==
    /\ combined.made
    /\ shown = NoShown
    /\ shown' = [made |-> TRUE, root |-> combined.result,
                 text |-> Sieve_to_string(heap, Sieve(combined.result))]
    /\ UNCHANGED <<T, overflow_checks, heap, strong, sieves, combined, sprobe,
                   evals, residual_vars, node_vars, iter_vars, util_vars>>

(* s.root.contains(v), for a handle s of root a and every value v of the   *)
(* window                                                                  *)
SieveContains(a) ==
    /\ sieves[a] > 0
    /\ sprobe = NoSieveProbe
    /\ evals < MaxEvals
    /\ sprobe' = [made |-> TRUE, root |-> a,
                  vals |-> [v \in Values |->
                              SieveNode_contains(Deref(heap, a), v)]]
    /\ evals' = evals + 1
    /\ UNCHANGED <<T, overflow_checks, heap, strong, sieves, combined, shown,
                   residual_vars, node_vars, iter_vars, util_vars>>

(* Direct calls into util.rs, as its tests make them. *)
ArgModuli == {x \in (-MaxNegArg)..MaxArg : InT(x)}
ArgShifts == 0..MaxArgShift
Args == [m1 : (-MaxNegArg)..MaxArg, m2 : (-MaxNegArg)..MaxArg,
         s1 : ArgShifts, s2 : ArgShifts]
NoArgs == [m1 |-> 0, m2 |-> 0, s1 |-> 0, s2 |-> 0]
NoRun == [fn |-> "none", out |-> Fail("none"), swapped |-> Fail("none"),
          iterations |-> 0, gcd |-> NotCalled, meziriac |-> NotCalled]

InitUtil ==
    /\ args = NoArgs
    /\ ran = NoRun

(* gcd(n, m), and gcd(m, n) with the arguments exchanged *)
CallGcd ==
    /\ ran.fn = "none"
    /\ args.m1 \in ArgModuli /\ args.m2 \in ArgModuli
    /\ ran' = [fn |-> "gcd",
               out |-> gcd(args.m1, args.m2),
               swapped |-> gcd(args.m2, args.m1),
               iterations |-> IF args.m1 <= 0 \/ args.m2 <= 0 THEN 0
                              ELSE gcd_iterations(args.m1, args.m2),
               gcd |-> NotCalled, meziriac |-> NotCalled]
    /\ UNCHANGED <<T, overflow_checks, args, residual_vars, node_vars,
                   iter_vars, sieve_vars>>

(* intersection(m1, m2, s1, s2) *)
CallIntersection ==
    /\ ran.fn = "none"
    /\ args.m1 \in ArgModuli /\ args.m2 \in ArgModuli
    /\ LET run == intersection_run(args.m1, args.m2, args.s1, args.s2)
       IN  ran' = [fn |-> "intersection", out |-> run.out,
                   swapped |-> Fail("none"), iterations |-> 0,
                   gcd |-> run.gcd, meziriac |-> run.meziriac]
    /\ UNCHANGED <<T, overflow_checks, args, residual_vars, node_vars,
                   iter_vars, sieve_vars>>

Init ==
    /\ T = "i8"
    /\ overflow_checks \in BOOLEAN
    /\ InitResidual /\ InitNode /\ InitIter /\ InitUtil /\ InitSieve

Next ==
    \/ \E m \in Moduli, s \in Shifts : New1(m, s)
    \/ \E m \in Moduli, s \in Shifts : New2(m, s)
    \/ BitAnd
    \/ BitAndSwapped
    \/ Contains
    \/ Compare

Spec == Init /\ [][Next]_vars

InitUnsigned ==
    /\ T = "u8"
    /\ overflow_checks \in BOOLEAN
    /\ InitResidual /\ InitNode /\ InitIter /\ InitUtil /\ InitSieve

SpecUnsigned == InitUnsigned /\ [][Next]_vars

NextNode ==
    \/ \E r \in Leaves : PushUnit(r)
    \/ PushIntersection
    \/ PushUnion
    \/ PushSymmetricDifference
    \/ PushInversion
    \/ NodeContains
    \/ NodeToString

SpecNode == Init /\ [][NextNode]_vars

NextIter ==
    \/ /\ returned.tag = "start"
       /\ \E node \in Sieves, input \in InputSeqs : iter_interval(node, input)
    \/ IterNext

SpecIter == Init /\ [][NextIter]_vars

InitArgs ==
    /\ T = "i8"
    /\ overflow_checks \in BOOLEAN
    /\ InitResidual /\ InitNode /\ InitIter /\ InitSieve
    /\ args \in Args
    /\ ran = NoRun

NextUtil ==
    \/ CallGcd
    \/ CallIntersection

SpecUtil == InitArgs /\ [][NextUtil]_vars

NextSieve ==
    \/ \E r \in SieveLeaves : SieveNew(r)
    \/ \E a \in DOMAIN heap : SieveClone(a)
    \/ \E a, b \in DOMAIN heap : SieveBitAnd(a, b)
    \/ SieveToString
    \/ \E a \in DOMAIN heap : combined.made /\ SieveContains(a)

SpecSieve == Init /\ [][NextSieve]_vars

---------------------------------------------------------------------------
(* Mathematics the claims are stated in, independent of the code.          *)

Divides(d, n) == \E k \in (-AbsInt(n))..AbsInt(n) : n = k * d
Congruent(v, s, m) == (v - s) % m = 0
GCD(a, b) == CHOOSE d \in 1..a : /\ Divides(d, a) /\ Divides(d, b)
                                 /\ \A e \in 1..a :
                                      Divides(e, a) /\ Divides(e, b) => e <= d
Normalized(r) == IF r.modulus = 0 THEN r.shift = 0
                 ELSE 0 <= r.shift /\ r.shift < r.modulus
(* An integer of both classes exists iff one exists in a full period. *)
CommonMember(a, b) ==
    \E v \in 0..(a.modulus * b.modulus - 1) :
        Congruent(v, a.shift, a.modulus) /\ Congruent(v, b.shift, b.modulus)
Merged == call.op \in {"bitand", "swapped", "contains", "compare"}

---------------------------------------------------------------------------
(* C1: merge correctness law.  For residuals r1, r2 built by construct     *)
(* with non-negative shifts, in either operand order, and every probed     *)
(* value v: (r1 & r2).contains(v) = r1.contains(v) && r2.contains(v).      *)
(* Stated for the builds with overflow checks, where a merge that returns  *)
(* has computed its result without wrap-around.                            *)
C1_MergeLaw ==
    (/\ call.op = "contains" /\ res.st = "ok" /\ overflow_checks
     /\ r1.shift >= 0 /\ r2.shift >= 0)
        => \A v \in Values :
             (hit.res[v] = "true") <=> (hit.r1[v] = "true" /\ hit.r2[v] = "true")

(* What contains(v) is to return for a residual r. *)
Member(r, v) ==
    IF r.modulus > 0 /\ Congruent(v, r.shift, r.modulus)
    THEN "true" ELSE "false"

(* C2: Residual.contains.  For a residual (m, s) with m > 0 and a probed   *)
(* value v, negative ones included, contains(v) is true iff v - s is       *)
(* divisible by m; for m = 0 contains(v) is false.                         *)
C2_Contains ==
    call.op = "contains" =>
        \A v \in Values : /\ hit.r1[v] = Member(r1, v)
                          /\ hit.r2[v] = Member(r2, v)

C2_Witness ==
    /\ call.op = "contains"
    /\ r1.modulus > 1 /\ r1.shift > 0
    /\ \E v \in Values : v < 0 /\ hit.r1[v] = "true"
    /\ \E v \in Values : v < 0 /\ hit.r1[v] = "false"
    /\ r2.modulus = 0 /\ \A v \in Values : hit.r2[v] = "false"

(* C3: Residual invariant.  Every Residual built by construct(modulus,     *)
(* shift) with modulus >= 0 and any shift of a signed type, negative ones  *)
(* included, or by merging such residuals, has 0 <= shift < modulus when   *)
(* modulus > 0 and shift = 0 when modulus = 0.                             *)
C3_Invariant ==
    \A i \in DOMAIN Operands : Normalized(Operands[i])

(* C4: normalization result.  For m > 0 and s >= 0, construct(m, s) has    *)
(* modulus m and shift s mod m; for m = 0 and any s it is (0, 0).          *)
C4_Normalization ==
    /\ call.op = "new1" =>
         IF call.modulus = 0 THEN r1 = Residual(0, 0)
         ELSE call.shift >= 0 =>
                r1 = Residual(call.modulus, call.shift % call.modulus)
    /\ call.op = "new2" =>
         IF call.modulus = 0 THEN r2 = Residual(0, 0)
         ELSE call.shift >= 0 =>
                r2 = Residual(call.modulus, call.shift % call.modulus)

C4_Witness ==
    /\ call.op = "new2"
    /\ call.modulus > 1 /\ call.shift > call.modulus /\ r2.shift > 0
    /\ r1 = Residual(0, 0)

(* C5: merge is total.  For every pair of residuals from construct over    *)
(* the element type, r1 & r2 returns a Residual and never aborts; when     *)
(* either operand has modulus 0 the result is the empty residual (0, 0).   *)
C5_MergeTotal ==
    (Merged /\ Normalized(r1) /\ Normalized(r2)) =>
        /\ res.st = "ok"
        /\ (r1.modulus = 0 \/ r2.modulus = 0) => res = Pair(0, 0)

(* C6: unsigned tolerance.  With an unsigned element type contains(v) is   *)
(* true iff v is congruent to shift modulo modulus, also for v < shift,    *)
(* and the merge of two residuals with s2 < s1 terminates with a result.   *)
C6_UnsignedTolerance ==
    /\ call.op = "contains" =>
          \A v \in Values : hit.r1[v] = Member(r1, v)
    /\ (Merged /\ r1.modulus > 0 /\ r2.modulus > 0 /\ r2.shift < r1.shift) =>
          res.st = "ok"

(* C8: Residual ordering.  cmp is a total order comparing modulus first    *)
(* and shift second, consistent with equality: exactly one of a < b,       *)
(* a == b, b < a holds; a < b iff a.modulus < b.modulus, or the moduli are *)
(* equal and a.shift < b.shift; cmp is Equal iff a == b.                   *)
C8_Ordering ==
    call.op = "compare" =>
      \A i, j \in DOMAIN Operands :
        LET a == Operands[i]
            b == Operands[j]
            lt == ord.cmp[i][j] = "Less"
            gt == ord.cmp[j][i] = "Less"
            eq == ord.eq[i][j]
        IN  /\ (lt /\ ~eq /\ ~gt) \/ (~lt /\ eq /\ ~gt) \/ (~lt /\ ~eq /\ gt)
            /\ lt <=> (\/ a.modulus < b.modulus
                       \/ a.modulus = b.modulus /\ a.shift < b.shift)
            /\ (ord.cmp[i][j] = "Equal") <=> eq
            /\ eq <=> (a = b)
            /\ (ord.cmp[i][j] = "Greater") <=> gt
            /\ \A k \in DOMAIN Operands :
                 (lt /\ ord.cmp[j][k] = "Less") => ord.cmp[i][k] = "Less"

C8_Witness ==
    /\ call.op = "compare"
    /\ Len(Operands) = 3
    /\ r1.modulus = r2.modulus /\ r1.shift < r2.shift
    /\ ord.cmp[1][2] = "Less" /\ ord.cmp[2][1] = "Greater"
    /\ ord.cmp[3][3] = "Equal" /\ ord.eq[3][3]

(* C10: no-solution detection.  For residuals with positive moduli and     *)
(* normalized shifts, the merge returns the empty residual (0, 0) iff no   *)
(* integer belongs to both classes, i.e. iff |s2 - s1| is not divisible by *)
(* gcd(m1, m2); two distinct classes of one modulus merge to 0@0.          *)
C10_NoSolution ==
    (/\ call.op = "bitand"
     /\ r1.modulus > 0 /\ r2.modulus > 0
     /\ Normalized(r1) /\ Normalized(r2))
    => /\ (res = Pair(0, 0)) <=> ~CommonMember(r1, r2)
       /\ (res = Pair(0, 0)) <=>
             ~Divides(GCD(r1.modulus, r2.modulus), r2.shift - r1.shift)
       /\ (r1.modulus = r2.modulus /\ r1.shift # r2.shift) => res = Pair(0, 0)

C10_Witness ==
    /\ call.op = "bitand"
    /\ r1.modulus > 0 /\ r2.modulus > r1.modulus
    /\ Normalized(r1) /\ Normalized(r2)
    /\ GCD(r1.modulus, r2.modulus) > 1
    /\ res = Pair(0, 0)

---------------------------------------------------------------------------
(* The set a tree denotes, by the algebra of sets. *)
RECURSIVE Holds(_, _)
Holds(n, v) ==
    CASE n.kind = "Unit" ->
           n.residual.modulus > 0
           /\ Congruent(v, n.residual.shift, n.residual.modulus)
      [] n.kind = "Intersection" -> Holds(n.lhs, v) /\ Holds(n.rhs, v)
      [] n.kind = "Union" -> Holds(n.lhs, v) \/ Holds(n.rhs, v)
      [] n.kind = "SymmetricDifference" -> Holds(n.lhs, v) # Holds(n.rhs, v)
      [] n.kind = "Inversion" -> ~Holds(n.part, v)

Yes(outcome) == outcome = "true"
Probed == Right(stack)

(* C7: tree evaluation laws.  For every tree and every probed value v,     *)
(* contains(v) on Intersection(A, B) is A.contains(v) && B.contains(v), on *)
(* Union(A, B) it is A.contains(v) || B.contains(v), on                    *)
(* SymmetricDifference(A, B) it is A.contains(v) XOR B.contains(v), on     *)
(* Inversion(A) it is NOT A.contains(v), on Unit(r) it is r.contains(v).   *)
C7_TreeLaws ==
    probe # NoProbe =>
      \A v \in Values :
        /\ probe[v] \in {"true", "false"}
        /\ Yes(probe[v]) <=> Holds(Probed, v)
        /\ CASE Probed.kind = "Unit" ->
                  probe[v] = Residual_contains(Probed.residual, v)
             [] Probed.kind = "Intersection" ->
                  Yes(probe[v]) <=> (/\ Yes(SieveNode_contains(Probed.lhs, v))
                                     /\ Yes(SieveNode_contains(Probed.rhs, v)))
             [] Probed.kind = "Union" ->
                  Yes(probe[v]) <=> (\/ Yes(SieveNode_contains(Probed.lhs, v))
                                     \/ Yes(SieveNode_contains(Probed.rhs, v)))
             [] Probed.kind = "SymmetricDifference" ->
                  Yes(probe[v]) <=> (Yes(SieveNode_contains(Probed.lhs, v))
                                     # Yes(SieveNode_contains(Probed.rhs, v)))
             [] Probed.kind = "Inversion" ->
                  Yes(probe[v]) <=> ~Yes(SieveNode_contains(Probed.part, v))

C7_Witness ==
    /\ probe # NoProbe
    /\ Probed.kind = "SymmetricDifference"
    /\ Probed.lhs.kind = "Union" /\ Probed.rhs.kind = "Unit"
    /\ \E v \in Values : v < 0 /\ probe[v] = "true"
    /\ \E v \in Values : /\ Holds(Probed.lhs, v) /\ Holds(Probed.rhs, v)
                         /\ probe[v] = "false"

(* The members of the sieve among the input consumed so far, in order,     *)
(* and the differences of neighbours.                                      *)
IsMember(x) == Holds(sieve_node, x)
Consumed == SubSeq(source, 1, Len(source) - Len(iterator))
Members(input) == SelectSeq(input, IsMember)
Gaps(ms) == [i \in 1..(IF Len(ms) = 0 THEN 0 ELSE Len(ms) - 1) |->
               ms[i + 1] - ms[i]]
NonDecreasing(s) == \A i \in 1..(Len(s) - 1) : s[i] <= s[i + 1]

(* C9: interval mapper.  Pulled to exhaustion over a finite input, the     *)
(* iterator emits nothing for the first member found and, for each later   *)
(* member, that member minus the previous one, in input order: the output  *)
(* has max(0, members - 1) values; non-members produce no output; for a    *)
(* non-decreasing input every emitted value is >= 0.                       *)
C9_Intervals ==
    returned.tag \in {"created", "Some", "None", "panic"} =>
      /\ returned.tag # "panic"
      /\ emitted = Gaps(Members(Consumed))
      /\ returned.tag = "None" =>
           /\ iterator = <<>>
           /\ emitted = Gaps(Members(source))
           /\ Len(emitted) = (IF Len(Members(source)) = 0 THEN 0
                              ELSE Len(Members(source)) - 1)
      /\ returned.tag = "Some" =>
           /\ emitted # <<>> /\ returned.v = emitted[Len(emitted)]
           /\ IsMember(Consumed[Len(Consumed)])
      /\ NonDecreasing(source) => \A i \in DOMAIN emitted : emitted[i] >= 0

C9_Witness ==
    /\ returned.tag = "None"
    /\ Len(source) = 3
    /\ IsMember(source[1]) /\ ~IsMember(source[2]) /\ IsMember(source[3])
    /\ source[1] < 0 /\ emitted = <<source[3] - source[1]>> /\ emitted[1] > 0

---------------------------------------------------------------------------
(* C11: inverse search inside merge.  In every call intersection makes to  *)
(* meziriac (a = m1/d, b = m2/d, d = gcd(m1, m2), m1, m2 > 0) the search   *)
(* returns without exhausting the range: it returns 1 when b = 1 and       *)
(* otherwise the smallest g >= 1 with (g*a) mod b = 1, which is below b    *)
(* and is not MAX; g = 0 (the a = b branch) only for a = b # 1.            *)
C11_InverseSearch ==
    (/\ ran.fn = "intersection" /\ ran.meziriac.made
     /\ args.m1 > 0 /\ args.m2 > 0)
    => LET a == ran.meziriac.x
           b == ran.meziriac.y
           g == ran.meziriac.out
       IN  /\ a = args.m1 \div GCD(args.m1, args.m2)
           /\ b = args.m2 \div GCD(args.m1, args.m2)
           /\ g.st = "ok"
           /\ b = 1 => g.v = 1
           /\ b # 1 => /\ g.v >= 1 /\ g.v < b /\ g.v # T_MAX
                       /\ (g.v * a) % b = 1
                       /\ \A h \in 1..(g.v - 1) : (h * a) % b # 1
           /\ g.v = 0 => (a = b /\ a # 1)

(* C12: gcd.  gcd(n, m) returns for all inputs: Ok(g) with g the greatest  *)
(* common divisor exactly when n > 0 and m > 0, whatever the order of the  *)
(* arguments, and an error, not a value, when either is zero or negative;  *)
(* intersection never passes a zero modulus to gcd, a zero modulus having  *)
(* returned (0, 0) first.                                                  *)
C12_Gcd ==
    /\ ran.fn = "gcd" =>
          /\ ran.out.st \in {"ok", "err"}
          /\ ran.out = ran.swapped
          /\ (args.m1 > 0 /\ args.m2 > 0) =>
                /\ ran.out = Val(GCD(args.m1, args.m2))
                /\ ran.iterations <= (IF args.m1 < args.m2 THEN args.m1
                                                           ELSE args.m2)
          /\ (args.m1 <= 0 \/ args.m2 <= 0) => ran.out.st = "err"
    /\ ran.fn = "intersection" =>
          /\ ran.gcd.made => (ran.gcd.x # 0 /\ ran.gcd.y # 0)
          /\ (args.m1 = 0 \/ args.m2 = 0) =>
                (~ran.gcd.made /\ ran.out = Pair(0, 0))

C12_Witness ==
    /\ ran.fn = "gcd"
    /\ args.m2 > 1 /\ args.m1 > args.m2
    /\ ran.out.st = "ok" /\ ran.out.v > 1 /\ ran.out.v < args.m2
    /\ ran.iterations >= 2

---------------------------------------------------------------------------
(* C13: the Sieve combinator is a pure construction.  s1 & s2 returns a    *)
(* new Sieve whose root is Intersection(root of s1, root of s2): one node  *)
(* is allocated, it refers to the operands' roots themselves, no node of   *)
(* either operand is altered or copied and nothing is evaluated; the       *)
(* result displays as "Sieve{" + display(s1 root) + "&" + display(s2 root) *)
(* + "}" and contains v iff s1 contains v and s2 contains v.               *)
C13_PureConstruction ==
    combined.made =>
      LET before == combined.heap
          s1 == Deref(before, combined.lhs)
          s2 == Deref(before, combined.rhs)
      IN  /\ Len(heap) = Len(before) + 1
          /\ combined.result = Len(heap)
          /\ \A a \in DOMAIN before : heap[a] = before[a]
          /\ heap[combined.result].kind = "Intersection"
          /\ heap[combined.result].lhs = combined.lhs
          /\ heap[combined.result].rhs = combined.rhs
          /\ sieves[combined.result] = 1
          /\ combined.evals_after = combined.evals_before
          /\ (shown.made /\ shown.root = combined.result) =>
                shown.text = "Sieve{" \o SieveNode_to_string(s1) \o "&"
                                \o SieveNode_to_string(s2) \o "}"
          /\ (sprobe.made /\ sprobe.root = combined.result) =>
                \A v \in Values :
                   /\ sprobe.vals[v] \in {"true", "false"}
                   /\ Yes(sprobe.vals[v]) <=>
                        (/\ Yes(SieveNode_contains(s1, v))
                         /\ Yes(SieveNode_contains(s2, v)))
                   /\ Yes(sprobe.vals[v]) <=> (Holds(s1, v) /\ Holds(s2, v))

C13_Witness ==
    /\ combined.made
    /\ heap[combined.lhs].kind = "Intersection"
    /\ heap[combined.lhs].lhs = combined.rhs
    /\ shown.made /\ shown.root = combined.result
    /\ shown.text = "Sieve{2@0&2@0&2@0}"
    /\ sprobe.made /\ sprobe.root = combined.result
    /\ \E v \in Values : v < 0 /\ sprobe.vals[v] = "true"

---------------------------------------------------------------------------
(* C14: merge is commutative.  For residuals r1, r2 built by construct     *)
(* with non-negative modulus and shift, r1 & r2 and r2 & r1 are the same   *)
(* residual (equal modulus and equal shift), e.g. 4@0 & 3@1 and 3@1 & 4@0. *)
C14_Commutative ==
    (/\ call.op = "swapped"
     /\ r1.shift >= 0 /\ r2.shift >= 0
     /\ res.st = "ok" /\ rev.st = "ok")
    => Residual_eq(AsResidual(res), AsResidual(rev))

---------------------------------------------------------------------------
(* The trees of at most n operators over the leaves at hand. *)
RECURSIVE TreesOf(_)
TreesOf(n) ==
    IF n = 0 THEN {Unit(r) : r \in Leaves}
    ELSE LET smaller == TreesOf(n - 1)
             pairs == {p \in smaller \X smaller : Ops(p[1]) + Ops(p[2]) < n}
         IN  smaller
             \cup {Inversion(t) : t \in smaller}
             \cup {Intersection(p[1], p[2]) : p \in pairs}
             \cup {Union(p[1], p[2]) : p \in pairs}
             \cup {SymmetricDifference(p[1], p[2]) : p \in pairs}
Trees == TreesOf(MaxOps)

(* C15: Display determines meaning.  Any two SieveNode trees (bounded      *)
(* size, mixing Intersection, Union, SymmetricDifference and Inversion)    *)
(* with the same Display text give the same contains(v) for every v: the   *)
(* nesting of binary nodes under binary nodes is not lost by the text.     *)
C15_DisplayDeterminesMeaning ==
    (probe # NoProbe /\ rendered.made) =>
      \A other \in Trees :
        SieveNode_to_string(other) = rendered.text =>
          \A v \in Values : SieveNode_contains(other, v) = probe[v]

===========================================================================
